---- MODULE Spec2Model ----
(***************************************************************************)
(* Resume-text job recommender: the keyword-heuristic scorer               *)
(* (scripts/recommend.py) with its HTTP endpoint                           *)
(* (scripts/recommend_server.py), and the embeddings scorer                *)
(* (scripts/embeddings_recommender.py) with its HTTP endpoint and lazily   *)
(* built process-wide singleton (scripts/embeddings_server.py).            *)
(*                                                                         *)
(* Texts are TLA+ strings handled character by character (Len, SubSeq and  *)
(* \o on strings), so normalisation, tokenisation and substring matching   *)
(* are computed as the Python code computes them.                          *)
(***************************************************************************)
EXTENDS Integers, Sequences, FiniteSets, TLC

(***************************************************************************)
(* Bounds of the model.                                                    *)
(***************************************************************************)
\* generated texts are built from at most this many lexemes
MaxLexemes == 3
\* n ranges over -MaxN .. MaxN
MaxN == 3
\* request threads of the embedding service
MaxThreads == 2
\* requests the embedding service accepts
MaxRequests == 3
\* categories ranked by the embeddings scorer
MaxCats == 3
\* similarities are drawn from 0 .. MaxSim
MaxSim == 2

(***************************************************************************)
(* Static tables of scripts/recommend.py.                                  *)
(***************************************************************************)
JOB_KEYS ==
  << "software", "data_scientist", "product_manager", "designer",
     "devops_engineer", "qa_engineer", "technical_writer", "teacher",
     "animator", "accountant", "nurse", "doctor", "marketing_manager",
     "sales_rep", "hr_manager", "graphic_designer", "project_manager",
     "social_worker" >>

JOB_KEYWORDS ==
  [ software |-> << "software", "engineer", "developer", "javascript", "python", "java", "react", "node" >>,
    data_scientist |-> << "data", "machine learning", "ml", "model", "statistics", "python", "pandas", "numpy" >>,
    product_manager |-> << "product", "roadmap", "stakeholder", "product management", "pm", "strategy" >>,
    designer |-> << "design", "ux", "ui", "figma", "sketch", "prototype", "visual" >>,
    devops_engineer |-> << "devops", "ci/cd", "docker", "kubernetes", "aws", "azure", "gcp", "infrastructure" >>,
    qa_engineer |-> << "test", "qa", "automation", "selenium", "jest", "pytest" >>,
    technical_writer |-> << "documentation", "write", "technical writing", "docs" >>,
    teacher |-> << "teaching", "teacher", "curriculum", "lesson", "classroom", "student", "tutor", "education" >>,
    animator |-> << "animation", "after effects", "aftereffects", "maya", "blender", "3d", "render", "storyboard", "animator" >>,
    accountant |-> << "accounting", "bookkeeping", "finance", "tax", "quickbooks", "audit", "accounts payable", "accounts receivable" >>,
    nurse |-> << "nurse", "rn", "patient care", "clinical", "ward", "patient", "nursing" >>,
    doctor |-> << "doctor", "physician", "md", "medical", "clinical", "patient care" >>,
    marketing_manager |-> << "marketing", "seo", "campaign", "content", "social media", "google analytics", "email marketing", "growth" >>,
    sales_rep |-> << "sales", "quota", "crm", "pipeline", "prospecting", "negotiation", "account executive", "bdm" >>,
    hr_manager |-> << "hr", "human resources", "talent acquisition", "recruiting", "onboarding", "employee relations" >>,
    graphic_designer |-> << "photoshop", "illustrator", "figma", "adobe", "design", "branding", "visual design" >>,
    project_manager |-> << "project manager", "project management", "scrum", "pmp", "gantt", "stakeholder management", "delivery" >>,
    social_worker |-> << "social work", "social worker", "case management", "counseling", "community" >> ]

JOB_TITLES ==
  [ software |-> "Software Engineer",
    data_scientist |-> "Data Scientist",
    product_manager |-> "Product Manager",
    designer |-> "Designer / UX",
    devops_engineer |-> "DevOps Engineer",
    qa_engineer |-> "QA / Test Engineer",
    technical_writer |-> "Technical Writer",
    teacher |-> "Teacher / Educator",
    animator |-> "Animator / Motion Designer",
    accountant |-> "Accountant / Bookkeeper",
    nurse |-> "Nurse",
    doctor |-> "Physician / Doctor",
    marketing_manager |-> "Marketing Manager",
    sales_rep |-> "Sales Representative",
    hr_manager |-> "HR / People Operations",
    graphic_designer |-> "Graphic Designer",
    project_manager |-> "Project Manager",
    social_worker |-> "Social Worker" ]

SPECIAL_WEIGHTS ==
  [ k \in { "ci cd", "ci/cd", "cicd", "docker", "kubernetes", "aws", "devops",
            "infrastructure", "machine learning", "python", "data" } |->
      CASE k \in { "ci cd", "ci/cd", "cicd", "docker", "kubernetes", "aws", "devops" } -> 3
        [] OTHER -> 2 ]

(***************************************************************************)
(* Characters and the string primitives of Python the code relies on.      *)
(***************************************************************************)
UpperChars == "ABCDEFGHIJKLMNOPQRSTUVWXYZ"
LowerChars == "abcdefghijklmnopqrstuvwxyz"
DigitChars == "0123456789"

CharAt(s, i) == SubSeq(s, i, i)

CharsOf(s) == { CharAt(s, i) : i \in 1..Len(s) }

\* \s of the re module (ASCII part)
SpaceChars == { " ", "\t", "\n", "\r" }

IsSpace(c) == c \in SpaceChars

\* \w of the re module (ASCII part): letters, digits and the underscore
WordChars == CharsOf(UpperChars) \cup CharsOf(LowerChars) \cup CharsOf(DigitChars) \cup { "_" }

IsWordChar(c) == c \in WordChars

\* the character class [\/_\-\+]
SeparatorChars == { "/", "_", "-", "+" }

IsSeparator(c) == c \in SeparatorChars

LowerMap ==
  [ c \in CharsOf(UpperChars) |->
      CharAt(LowerChars, CHOOSE i \in 1..Len(UpperChars) : CharAt(UpperChars, i) = c) ]

LowerChar(c) == IF c \in DOMAIN LowerMap THEN LowerMap[c] ELSE c

\* str.lower()
RECURSIVE StrLower(_)
StrLower(s) ==
  IF s = "" THEN "" ELSE LowerChar(CharAt(s, 1)) \o StrLower(SubSeq(s, 2, Len(s)))

\* re.sub(r"[\/_\-\+]", " ", s)
RECURSIVE SubSeparators(_)
SubSeparators(s) ==
  IF s = "" THEN ""
  ELSE (IF IsSeparator(CharAt(s, 1)) THEN " " ELSE CharAt(s, 1))
         \o SubSeparators(SubSeq(s, 2, Len(s)))

\* re.sub(r"\s+", " ", s): every maximal run of whitespace becomes one space
RECURSIVE CollapseSpaces(_)
CollapseSpaces(s) ==
  IF s = "" THEN ""
  ELSE IF IsSpace(CharAt(s, 1))
       THEN IF Len(s) >= 2 /\ IsSpace(CharAt(s, 2))
            THEN CollapseSpaces(SubSeq(s, 2, Len(s)))
            ELSE " " \o CollapseSpaces(SubSeq(s, 2, Len(s)))
       ELSE CharAt(s, 1) \o CollapseSpaces(SubSeq(s, 2, Len(s)))

\* str.strip()
RECURSIVE Strip(_)
Strip(s) ==
  IF s = "" THEN ""
  ELSE IF IsSpace(CharAt(s, 1)) THEN Strip(SubSeq(s, 2, Len(s)))
  ELSE IF IsSpace(CharAt(s, Len(s))) THEN Strip(SubSeq(s, 1, Len(s) - 1))
  ELSE s

\* needle in hay (substring test on str)
StrContains(hay, needle) ==
  \E i \in 1..(Len(hay) - Len(needle) + 1) : SubSeq(hay, i, i + Len(needle) - 1) = needle

\* x in list
InList(x, list) == \E i \in 1..Len(list) : list[i] = x

\* maximal runs of characters satisfying the class, in order; empties dropped.
\* cur is the run being accumulated.
RECURSIVE WordRuns(_, _)
WordRuns(s, cur) ==
  IF s = "" THEN (IF cur = "" THEN << >> ELSE << cur >>)
  ELSE IF IsWordChar(CharAt(s, 1))
       THEN WordRuns(SubSeq(s, 2, Len(s)), cur \o CharAt(s, 1))
       ELSE (IF cur = "" THEN << >> ELSE << cur >>) \o WordRuns(SubSeq(s, 2, Len(s)), "")

\* str.split() without arguments: runs of non-whitespace
RECURSIVE SplitWs(_, _)
SplitWs(s, cur) ==
  IF s = "" THEN (IF cur = "" THEN << >> ELSE << cur >>)
  ELSE IF ~IsSpace(CharAt(s, 1))
       THEN SplitWs(SubSeq(s, 2, Len(s)), cur \o CharAt(s, 1))
       ELSE (IF cur = "" THEN << >> ELSE << cur >>) \o SplitWs(SubSeq(s, 2, Len(s)), "")

\* sep.join(list)
RECURSIVE StrJoin(_, _)
StrJoin(sep, list) ==
  IF list = << >> THEN ""
  ELSE IF Len(list) = 1 THEN list[1]
  ELSE list[1] \o sep \o StrJoin(sep, Tail(list))

Min(a, b) == IF a <= b THEN a ELSE b
Max(a, b) == IF a >= b THEN a ELSE b

(***************************************************************************)
(* scripts/recommend.py                                                    *)
(***************************************************************************)
normalize(text) == Strip(CollapseSpaces(SubSeparators(StrLower(text))))

tokenize(text) == WordRuns(normalize(text), "")

\* every keyword of the table
AllKeywords ==
  UNION { { JOB_KEYWORDS[key][i] : i \in 1..Len(JOB_KEYWORDS[key]) } : key \in DOMAIN JOB_KEYWORDS }

\* k_norm of a keyword: lowercased, separators replaced, stripped.  The
\* keyword table is static, so the values are tabulated once.
KNormTable == [ kw \in AllKeywords |-> Strip(SubSeparators(StrLower(kw))) ]

KNorm(kw) == KNormTable[kw]

\* SPECIAL_WEIGHTS.get(k_norm, 1)
WeightTable ==
  [ kw \in AllKeywords |->
      IF KNorm(kw) \in DOMAIN SPECIAL_WEIGHTS THEN SPECIAL_WEIGHTS[KNorm(kw)] ELSE 1 ]

Weight(kw) == WeightTable[kw]

\* " " in k_norm
IsPhraseTable == [ kw \in AllKeywords |-> StrContains(KNorm(kw), " ") ]

\* [p for p in k_norm.split() if p]
PartsTable == [ kw \in AllKeywords |-> SplitWs(KNorm(kw), "") ]

\* the match decision of one keyword
Matched(kw, normalized, tokens) ==
  LET k_norm == KNorm(kw) IN
  IF ~IsPhraseTable[kw]
  THEN InList(k_norm, tokens)
  ELSE \/ StrContains(normalized, k_norm)
       \/ LET parts == PartsTable[kw] IN
          /\ parts # << >>
          /\ \A i \in 1..Len(parts) : InList(parts[i], tokens)

\* the inner loop over the keywords of one category
RECURSIVE ScanKeywords(_, _, _, _)
ScanKeywords(kws, normalized, tokens, acc) ==
  IF kws = << >> THEN acc
  ELSE LET kw == Head(kws)
           weight == Weight(kw)
           hit == Matched(kw, normalized, tokens)
       IN ScanKeywords(Tail(kws), normalized, tokens,
            [ score_sum |-> acc.score_sum + (IF hit THEN weight ELSE 0),
              total_possible |-> acc.total_possible + weight,
              reasons |-> IF hit THEN Append(acc.reasons, kw) ELSE acc.reasons ])

\* the reason-based test of line 133: some matched keyword is in
\* SPECIAL_WEIGHTS with weight >= 3
ReasonKeyTable == [ kw \in AllKeywords |-> Strip(SubSeparators(kw)) ]

HighSignal(reasons) ==
  \E i \in 1..Len(reasons) :
    LET r == ReasonKeyTable[reasons[i]] IN
    /\ r \in DOMAIN SPECIAL_WEIGHTS
    /\ SPECIAL_WEIGHTS[r] >= 3

\* NormScore with the high-signal minimum set to 50 instead of 60
NormScore_floor50(acc) ==
  LET norm_score == Min(100, (acc.score_sum * 100) \div acc.total_possible)
  IN IF HighSignal(acc.reasons) THEN Max(norm_score, 50) ELSE norm_score

\* int((score_sum / total_possible) * 100), capped at 100, floored at 60 on
\* a high-signal match
NormScore(acc) ==
  LET norm_score == Min(100, (acc.score_sum * 100) \div acc.total_possible)
  IN IF HighSignal(acc.reasons) THEN Max(norm_score, 60) ELSE norm_score

\* the scores dict after the category loop, as a sequence in insertion order
RECURSIVE BuildScores(_, _, _)
BuildScores(keys, normalized, tokens) ==
  IF keys = << >> THEN << >>
  ELSE LET key == Head(keys)
           acc == ScanKeywords(JOB_KEYWORDS[key], normalized, tokens,
                    [ score_sum |-> 0, total_possible |-> 0, reasons |-> << >> ])
           rest == BuildScores(Tail(keys), normalized, tokens)
       IN IF acc.score_sum > 0 /\ acc.total_possible > 0
          THEN << [ key |-> key, score |-> NormScore(acc), reasons |-> acc.reasons ] >> \o rest
          ELSE rest

\* first word of the title, lowercased
TitleWordTable == [ key \in DOMAIN JOB_TITLES |-> StrLower(SplitWs(JOB_TITLES[key], "")[1]) ]

TitleWord(key) == TitleWordTable[key]

\* BoostScores without the cap at 100
BoostScores_nocap(scores, joined) ==
  [ i \in 1..Len(scores) |->
      IF StrContains(joined, TitleWord(scores[i].key))
      THEN [ scores[i] EXCEPT !.score = scores[i].score + 10 ]
      ELSE scores[i] ]

\* the title-word boost loop
BoostScores(scores, joined) ==
  [ i \in 1..Len(scores) |->
      IF StrContains(joined, TitleWord(scores[i].key))
      THEN [ scores[i] EXCEPT !.score = Min(100, scores[i].score + 10) ]
      ELSE scores[i] ]

\* sorted(..., key=score, reverse=True): stable, equal scores keep their order
RECURSIVE InsertDesc(_, _)
InsertDesc(sorted, item) ==
  IF sorted = << >> THEN << item >>
  ELSE IF Head(sorted).score >= item.score
       THEN << Head(sorted) >> \o InsertDesc(Tail(sorted), item)
       ELSE << item >> \o sorted

RECURSIVE SortedDesc(_)
SortedDesc(items) ==
  IF items = << >> THEN << >>
  ELSE InsertDesc(SortedDesc(SubSeq(items, 1, Len(items) - 1)), items[Len(items)])

\* the slice seq[:n] of Python, n of any sign
SliceTo(seq, n) ==
  IF n >= 0 THEN SubSeq(seq, 1, Min(n, Len(seq)))
  ELSE SubSeq(seq, 1, Max(0, Len(seq) + n))

FallbackResult ==
  [ title |-> "Generalist / Entry-level", score |-> 50,
    reason |-> "No strong keyword matches; broad role" ]

\* the scores dict just before sorting
ScoresOf(text) ==
  LET normalized == normalize(text)
      tokens == tokenize(text)
      joined == StrJoin(" ", tokens)
  IN BoostScores(BuildScores(JOB_KEYS, normalized, tokens), joined)

recommend_jobs(text, n) ==
  IF text = "" THEN << >>
  ELSE LET items == SortedDesc(ScoresOf(text))
           top == SliceTo(items, n)
           results == [ i \in 1..Len(top) |->
                          [ title |-> JOB_TITLES[top[i].key],
                            score |-> top[i].score,
                            reason |-> "Matched keywords: " \o StrJoin(", ", top[i].reasons) ] ]
       IN IF results = << >> THEN << FallbackResult >> ELSE results

(***************************************************************************)
(* scripts/recommend_server.py: POST /recommend of the heuristic service.  *)
(* JSON values are tagged records: [t |-> "str", v |-> ...],               *)
(* [t |-> "int", v |-> ...] and [t |-> "null"]; a body is a function from  *)
(* the field names it carries to such values.                              *)
(***************************************************************************)
\* names bound at module level of recommend_server.py by its import
\* statements and definitions
ServerModuleNames == { "Flask", "request", "jsonify", "CORS", "recommend_jobs", "app", "recommend" }

RECOMMEND_MAX_CHARS == 15000

\* str(i) of a non-negative int
RECURSIVE NatToStr(_)
NatToStr(i) ==
  IF i < 10 THEN CharAt(DigitChars, i + 1)
  ELSE NatToStr(i \div 10) \o CharAt(DigitChars, (i % 10) + 1)

\* str(value) of a JSON value that is not None
PyStr(val) ==
  CASE val.t = "str" -> val.v
    [] val.t = "int" -> IF val.v < 0 THEN "-" \o NatToStr(0 - val.v) ELSE NatToStr(val.v)

\* int(data.get("n", 5)) with the except branch falling back to 5
ParseN(data) ==
  IF "n" \notin DOMAIN data THEN 5
  ELSE IF data["n"].t = "int" THEN data["n"].v
  ELSE 5

recommend_endpoint(data) ==
  LET got == IF "text" \in DOMAIN data THEN data["text"] ELSE [ t |-> "str", v |-> "" ]
      coerced == IF got.t = "null" THEN "" ELSE PyStr(got)
  IN IF "os" \notin ServerModuleNames
     THEN \* os.environ raises NameError outside any try block: the framework
          \* answers 500 without the JSON envelope
          [ status |-> 500, kind |-> "unhandled", exception |-> "NameError" ]
     ELSE LET MAX_CHARS == RECOMMEND_MAX_CHARS
              text == IF Len(coerced) > MAX_CHARS THEN SubSeq(coerced, 1, MAX_CHARS) ELSE coerced
              n == ParseN(data)
          IN [ status |-> 200, kind |-> "recommendations",
               recommendations |-> recommend_jobs(text, n) ]

(***************************************************************************)
(* Inputs of the heuristic scorer.                                         *)
(***************************************************************************)
Lexemes == { "Python", "docker", "data", "ci", "cd", " ", "/" }

SampleTexts ==
  { "Experienced Python developer with docker and aws",
    "asdkjaslkdj",
    "chrome recruiting",
    "documentation write technical writing docs",
    "antisocial workshop",
    "graphic",
    "Machine-Learning  models",
    "aws_kubernetes+devops docker CI/CD",
    "devops docker" }

RECURSIVE TextsUpTo(_)
TextsUpTo(k) ==
  IF k = 0 THEN { "" }
  ELSE LET prev == TextsUpTo(k - 1) IN prev \cup { t \o l : t \in prev, l \in Lexemes }

Texts == SampleTexts \cup TextsUpTo(MaxLexemes)

Ns == (0 - MaxN) .. MaxN

BodyShapes == { "plain", "no_text", "null_text", "int_text", "no_n", "bad_n" }

\* the JSON body of a request carrying text t and count k in the given shape
BodyOf(shape, t, k) ==
  LET textField == CASE shape = "null_text" -> [ t |-> "null" ]
                     [] shape = "int_text" -> [ t |-> "int", v |-> k ]
                     [] OTHER -> [ t |-> "str", v |-> t ]
      nField == IF shape = "bad_n" THEN [ t |-> "str", v |-> "many" ] ELSE [ t |-> "int", v |-> k ]
  IN CASE shape = "no_text" -> [ f \in { "n" } |-> nField ]
       [] shape = "no_n" -> [ f \in { "text" } |-> textField ]
       [] OTHER -> [ f \in { "text", "n" } |-> IF f = "text" THEN textField ELSE nField ]

VARIABLES
  text,        \* heuristic scorer: the text argument
  n,           \* heuristic scorer: the n argument
  scores,      \* heuristic scorer: the scores dict of the last call, in insertion order
  results,     \* heuristic scorer: the list returned by the last call
  request,     \* heuristic service: JSON body of the request handled
  response,    \* heuristic service: the response sent
  kpc,         \* "start", "returned" (direct call) or "responded" (HTTP request)
  recommender, \* embedding service: the module-level slot, 0 for None, else an instance id
  pc,          \* embedding service: position of each request thread
  rec,         \* embedding service: what get_recommender returned to each thread (0: nothing yet)
  ctor,        \* embedding service: progress of the constructor call each thread is running
  resp,        \* embedding service: last response each thread sent
  accepted,    \* embedding service: requests accepted so far
  built,       \* embedding service: instances whose construction completed (ids 1..built)
  writes,      \* embedding service: assignments made to the slot
  sims,        \* embeddings scorer: cosine similarity of the text to each category
  rn,          \* embeddings scorer: the n argument
  idxs,        \* embeddings scorer: argsort(-sims)[:n]
  ranked,      \* embeddings scorer: the list returned
  rpc          \* embeddings scorer: "start" or "done"

kwVars == << text, n, scores, results, request, response, kpc >>

embVars == << recommender, pc, rec, ctor, resp, accepted, built, writes >>

rankVars == << sims, rn, idxs, ranked, rpc >>

vars == << kwVars, embVars, rankVars >>

NoValue == [ t |-> "none" ]

Threads == 1..MaxThreads

CtorNone == [ loads |-> 0, first |-> "none", cpu |-> "none", encoded |-> FALSE, inst |-> 0, outcome |-> "none" ]

NoResponse == [ status |-> 0, body |-> "none", cors |-> FALSE, used |-> 0 ]

\* the heuristic scorer before any call
KwStart ==
  /\ scores = << >>
  /\ results = << >>
  /\ request = NoValue
  /\ response = NoValue

\* the embedding service right after import: recommender = None, no request yet
EmbStart ==
  /\ recommender = 0
  /\ pc = [ t \in Threads |-> "idle" ]
  /\ rec = [ t \in Threads |-> 0 ]
  /\ ctor = [ t \in Threads |-> CtorNone ]
  /\ resp = [ t \in Threads |-> NoResponse ]
  /\ accepted = 0
  /\ built = 0
  /\ writes = 0

\* the embeddings scorer before any call
RankStart ==
  /\ idxs = << >>
  /\ ranked = << >>

KwInit ==
  /\ text \in Texts
  /\ n \in Ns
  /\ kpc = "start"
  /\ KwStart
  /\ EmbStart
  /\ RankStart /\ sims = << >> /\ rn = 0 /\ rpc = "off"

\* a direct call recommend_jobs(text, n)
CallRecommendJobs ==
  /\ kpc = "start"
  /\ results' = recommend_jobs(text, n)
  /\ scores' = IF text = "" THEN << >> ELSE ScoresOf(text)
  /\ kpc' = "returned"
  /\ UNCHANGED << text, n, request, response, embVars, rankVars >>

\* one POST /recommend handled by the heuristic service
ServeRecommend ==
  /\ kpc = "start"
  /\ \E shape \in BodyShapes :
        /\ request' = BodyOf(shape, text, n)
        /\ response' = recommend_endpoint(BodyOf(shape, text, n))
  /\ kpc' = "responded"
  /\ UNCHANGED << text, n, scores, results, embVars, rankVars >>

KwNext == CallRecommendJobs \/ ServeRecommend

SpecKw == KwInit /\ [][KwNext]_vars

(***************************************************************************)
(* scripts/embeddings_server.py with the constructor of                    *)
(* EmbeddingsRecommender.  Each thread of the server handles requests one  *)
(* after the other; threads interleave at every access to the module-level *)
(* slot and at every call into the model library.                          *)
(***************************************************************************)
\* IsMetaError taking every load error for a meta-tensor error
IsMetaError_any(err) == TRUE

\* the except branch of __init__: the errors that trigger the CPU fallback
\* ("meta" in the message, or a NotImplementedError)
IsMetaError(err) == err = "meta"

\* handle_exception + add_cors_headers: the answer to an unhandled exception
ErrorResponse == [ status |-> 500, body |-> "error", cors |-> TRUE, used |-> 0 ]

\* SlotAfterRaise clearing the slot when a constructor call raises
SlotAfterRaise_cleared(slot) == 0

\* SlotAfterRaise leaving the half-built object (-1) in the slot
SlotAfterRaise_partial(slot) == 0 - 1

\* the slot after a constructor call that raised: the assignment of
\* get_recommender never executes
SlotAfterRaise(slot) == slot

\* an exception leaves the request: the thread answers 500 and is free again
RaiseInRequest(t) ==
  /\ pc' = [ pc EXCEPT ![t] = "idle" ]
  /\ resp' = [ resp EXCEPT ![t] = ErrorResponse ]

\* OPTIONS /recommend
Preflight(t) ==
  /\ pc[t] = "idle"
  /\ accepted < MaxRequests
  /\ accepted' = accepted + 1
  /\ resp' = [ resp EXCEPT ![t] = [ status |-> 200, body |-> "empty", cors |-> TRUE, used |-> 0 ] ]
  /\ UNCHANGED << recommender, pc, rec, ctor, built, writes, kwVars, rankVars >>

\* POST /recommend up to the call of get_recommender; int(data.get("n", 5))
\* raises when n is not a number
PostRecommend(t) ==
  /\ pc[t] = "idle"
  /\ accepted < MaxRequests
  /\ accepted' = accepted + 1
  /\ \E nIsNumber \in BOOLEAN :
       IF nIsNumber
       THEN /\ pc' = [ pc EXCEPT ![t] = "check" ]
            /\ rec' = [ rec EXCEPT ![t] = 0 ]
            /\ ctor' = [ ctor EXCEPT ![t] = CtorNone ]
            /\ UNCHANGED resp
       ELSE /\ RaiseInRequest(t)
            /\ UNCHANGED << rec, ctor >>
  /\ UNCHANGED << recommender, built, writes, kwVars, rankVars >>

\* get_recommender: if recommender is None
CheckSlot(t) ==
  /\ pc[t] = "check"
  /\ IF recommender = 0
     THEN /\ pc' = [ pc EXCEPT ![t] = "load" ]
          /\ ctor' = [ ctor EXCEPT ![t] = [ CtorNone EXCEPT !.outcome = "running" ] ]
     ELSE /\ pc' = [ pc EXCEPT ![t] = "ret" ]
          /\ UNCHANGED ctor
  /\ UNCHANGED << recommender, rec, resp, accepted, built, writes, kwVars, rankVars >>

\* __init__: SentenceTransformer(self.model_name) and the except branch
LoadModel(t) ==
  /\ pc[t] = "load"
  /\ \E outcome \in { "ok", "meta", "other" } :
       LET c == [ ctor[t] EXCEPT !.loads = @ + 1, !.first = outcome ] IN
       IF outcome = "ok"
       THEN /\ pc' = [ pc EXCEPT ![t] = "encode" ]
            /\ ctor' = [ ctor EXCEPT ![t] = c ]
            /\ UNCHANGED << recommender, resp >>
       ELSE IF IsMetaError(outcome)
       THEN /\ pc' = [ pc EXCEPT ![t] = "load_cpu" ]
            /\ ctor' = [ ctor EXCEPT ![t] = c ]
            /\ UNCHANGED << recommender, resp >>
       ELSE /\ ctor' = [ ctor EXCEPT ![t] = [ c EXCEPT !.outcome = "raised" ] ]
            /\ recommender' = SlotAfterRaise(recommender)
            /\ RaiseInRequest(t)
  /\ UNCHANGED << rec, accepted, built, writes, kwVars, rankVars >>

\* __init__: SentenceTransformer(self.model_name, device="cpu") in the except
\* branch; an exception raised here propagates
LoadModelCpu(t) ==
  /\ pc[t] = "load_cpu"
  /\ \E outcome \in { "ok", "error" } :
       LET c == [ ctor[t] EXCEPT !.loads = @ + 1, !.cpu = outcome ] IN
       IF outcome = "ok"
       THEN /\ pc' = [ pc EXCEPT ![t] = "encode" ]
            /\ ctor' = [ ctor EXCEPT ![t] = c ]
            /\ UNCHANGED << recommender, resp >>
       ELSE /\ ctor' = [ ctor EXCEPT ![t] = [ c EXCEPT !.outcome = "raised" ] ]
            /\ recommender' = SlotAfterRaise(recommender)
            /\ RaiseInRequest(t)
  /\ UNCHANGED << rec, accepted, built, writes, kwVars, rankVars >>

\* __init__: job_keys, job_texts and the batch encode of the category texts;
\* the instance is complete
EncodeJobs(t) ==
  /\ pc[t] = "encode"
  /\ built' = built + 1
  /\ ctor' = [ ctor EXCEPT ![t] = [ @ EXCEPT !.encoded = TRUE, !.inst = built + 1, !.outcome = "built" ] ]
  /\ pc' = [ pc EXCEPT ![t] = "store" ]
  /\ UNCHANGED << recommender, rec, resp, accepted, writes, kwVars, rankVars >>

\* get_recommender: recommender = <the new instance>
StoreSlot(t) ==
  /\ pc[t] = "store"
  /\ recommender' = ctor[t].inst
  /\ writes' = writes + 1
  /\ pc' = [ pc EXCEPT ![t] = "ret" ]
  /\ UNCHANGED << rec, ctor, resp, accepted, built, kwVars, rankVars >>

\* get_recommender: return recommender
ReturnSlot(t) ==
  /\ pc[t] = "ret"
  /\ rec' = [ rec EXCEPT ![t] = recommender ]
  /\ pc' = [ pc EXCEPT ![t] = "recommend" ]
  /\ UNCHANGED << recommender, ctor, resp, accepted, built, writes, kwVars, rankVars >>

\* .recommend(text, n=n) on the returned instance and the JSON answer
AnswerRecommend(t) ==
  /\ pc[t] = "recommend"
  /\ resp' = [ resp EXCEPT ![t] = [ status |-> 200, body |-> "recommendations", cors |-> TRUE, used |-> rec[t] ] ]
  /\ pc' = [ pc EXCEPT ![t] = "idle" ]
  /\ UNCHANGED << recommender, rec, ctor, accepted, built, writes, kwVars, rankVars >>

EmbInit ==
  /\ EmbStart
  /\ KwStart /\ text = "" /\ n = 0 /\ kpc = "off"
  /\ RankStart /\ sims = << >> /\ rn = 0 /\ rpc = "off"

EmbNext ==
  \E t \in Threads :
    \/ Preflight(t)
    \/ PostRecommend(t)
    \/ CheckSlot(t)
    \/ LoadModel(t)
    \/ LoadModelCpu(t)
    \/ EncodeJobs(t)
    \/ StoreSlot(t)
    \/ ReturnSlot(t)
    \/ AnswerRecommend(t)

SpecEmb == EmbInit /\ [][EmbNext]_vars

(***************************************************************************)
(* scripts/embeddings_recommender.py: EmbeddingsRecommender.recommend.     *)
(* The sentence-transformers model is opaque, so the cosine similarities   *)
(* of the text to the categories are the input, in integer quanta.         *)
(* The ranking is modelled over the first MaxCats categories of the table. *)
(***************************************************************************)
job_keys == SubSeq(JOB_KEYS, 1, Min(MaxCats, Len(JOB_KEYS)))

build_job_text(key) == JOB_TITLES[key] \o ". Keywords: " \o StrJoin("; ", JOB_KEYWORDS[key])

job_texts == [ i \in 1..Len(job_keys) |-> build_job_text(job_keys[i]) ]

SimVectors == [ 1..Len(job_keys) -> 0..MaxSim ]

\* ArgsortOrders sorting the similarities themselves (ascending similarity)
ArgsortOrders_ascending(s) ==
  { p \in Permutations(1..Len(s)) :
      \A i, j \in 1..Len(s) : i < j => s[p[i]] <= s[p[j]] }

\* np.argsort(-sims): the index orders in which -sims is non-decreasing.
\* The default sort kind is not stable, so equal values come in any order.
ArgsortOrders(s) ==
  { p \in Permutations(1..Len(s)) :
      \A i, j \in 1..Len(s) : i < j => (0 - s[p[i]]) <= (0 - s[p[j]]) }

\* the result list built from the selected indices
RankedResults(s, sel) ==
  [ i \in 1..Len(sel) |->
      [ title |-> JOB_TITLES[job_keys[sel[i]]],
        score |-> s[sel[i]],
        explanation |-> job_texts[sel[i]] ] ]

RankInit ==
  /\ sims \in SimVectors
  /\ rn \in Ns
  /\ rpc = "start"
  /\ RankStart
  /\ KwStart /\ text = "" /\ n = 0 /\ kpc = "off"
  /\ EmbStart

\* one call recommend(text, n) on a constructed instance
RecommendSemantic ==
  /\ rpc = "start"
  /\ \E order \in ArgsortOrders(sims) :
       /\ idxs' = SliceTo(order, rn)
       /\ ranked' = RankedResults(sims, SliceTo(order, rn))
  /\ rpc' = "done"
  /\ UNCHANGED << sims, rn, kwVars, embVars >>

RankNext == RecommendSemantic

SpecRank == RankInit /\ [][RankNext]_vars

(***************************************************************************)
(* Properties of the heuristic scorer and its endpoint (SpecKw).           *)
(***************************************************************************)
ExampleText == "Experienced Python developer with docker and aws"

HasEntry(list, title) == \E i \in 1..Len(list) : list[i].title = title

ScoreOfTitle(list, title) == list[CHOOSE i \in 1..Len(list) : list[i].title = title].score

RECURSIVE SumSeq(_)
SumSeq(seq) == IF seq = << >> THEN 0 ELSE Head(seq) + SumSeq(Tail(seq))

\* the keyword positions of a category that match the text
MatchedPositions(key, t) ==
  { i \in 1..Len(JOB_KEYWORDS[key]) : Matched(JOB_KEYWORDS[key][i], normalize(t), tokenize(t)) }

AnyMatched(key, t) == MatchedPositions(key, t) # { }

\* min(100, b + boost) as the scoring rule states it
ExpectedScore(key, t) ==
  LET kws == JOB_KEYWORDS[key]
      hits == MatchedPositions(key, t)
      matched_weight == SumSeq([ i \in 1..Len(kws) |-> IF i \in hits THEN Weight(kws[i]) ELSE 0 ])
      total_weight == SumSeq([ i \in 1..Len(kws) |-> Weight(kws[i]) ])
      b0 == Min(100, (100 * matched_weight) \div total_weight)
      b == IF \E i \in hits : Weight(kws[i]) >= 3 THEN Max(b0, 60) ELSE b0
      boost == IF StrContains(StrJoin(" ", tokenize(t)), TitleWord(key)) THEN 10 ELSE 0
  IN Min(100, b + boost)

\* C1: for every text and every integer n, zero and negative included,
\* recommend_jobs(text, n) returns at most n entries and every score is an
\* integer in 0..100.
C1_AtMostNInRange ==
  kpc = "returned" =>
    /\ Len(results) <= n
    /\ \A i \in 1..Len(results) : results[i].score \in 0..100

\* C2 as claimed: on the example text, with n large enough for every matched
\* category, "Software Engineer" and "DevOps Engineer" are both returned with
\* score >= 60.
C2_BothAtLeast60 ==
  (kpc = "returned" /\ text = ExampleText /\ n >= 3) =>
    /\ HasEntry(results, "Software Engineer")
    /\ HasEntry(results, "DevOps Engineer")
    /\ ScoreOfTitle(results, "Software Engineer") >= 60
    /\ ScoreOfTitle(results, "DevOps Engineer") >= 60

\* C2 amended: on the example text, with n large enough for every matched
\* category, both entries are returned; "DevOps Engineer" scores 60 (the
\* weight-3 floor) and "Software Engineer" scores 33 (no weight-3 keyword of
\* it matches, so no floor applies).
C2_DevOps60Software33 ==
  (kpc = "returned" /\ text = ExampleText /\ n >= 3) =>
    /\ HasEntry(results, "Software Engineer")
    /\ HasEntry(results, "DevOps Engineer")
    /\ ScoreOfTitle(results, "Software Engineer") = 33
    /\ ScoreOfTitle(results, "DevOps Engineer") = 60

C2_Witness ==
  /\ kpc = "returned"
  /\ text = ExampleText
  /\ n >= 3
  /\ Len(results) = 3

\* C3: for every non-empty text and every n, recommend_jobs returns the
\* single fallback entry if and only if no category matched; when a category
\* matched the fallback is not returned.
C3_FallbackIffNoMatch ==
  (kpc = "returned" /\ text # "") =>
    ((results = << FallbackResult >>) <=> (\A key \in DOMAIN JOB_KEYWORDS : ~AnyMatched(key, text)))

\* C4: every POST /recommend whose text coerces to a string is answered with
\* {recommendations: recommend_jobs(truncated text, n or 5)}; 400 is sent only
\* when the text cannot be coerced and 500 only when the scorer raises (no
\* JSON value of the model does either).
C4_AnswersRecommendations ==
  kpc = "responded" =>
    /\ response.status = 200
    /\ response.kind = "recommendations"
    /\ response.recommendations =
         recommend_jobs(
           LET got == IF "text" \in DOMAIN request THEN request["text"] ELSE [ t |-> "str", v |-> "" ]
               coerced == IF got.t = "null" THEN "" ELSE PyStr(got)
           IN SubSeq(coerced, 1, Min(Len(coerced), RECOMMEND_MAX_CHARS)),
           ParseN(request))

\* C9: every category reported has a matched keyword and its score is
\* min(100, b + boost), b = min(100, floor(100 * matched / total)) raised to
\* 60 when a matched keyword has weight >= 3, boost = 10 exactly when the
\* lowercased first title word occurs in the joined tokens; a category with
\* no matched keyword never appears.
C9_ScoreFormula ==
  kpc = "returned" =>
    /\ \A i \in 1..Len(results) :
         results[i] # FallbackResult =>
           \E key \in DOMAIN JOB_TITLES :
             /\ JOB_TITLES[key] = results[i].title
             /\ AnyMatched(key, text)
             /\ results[i].score = ExpectedScore(key, text)
    /\ \A i \in 1..Len(scores) :
         /\ AnyMatched(scores[i].key, text)
         /\ scores[i].score = ExpectedScore(scores[i].key, text)

\* floor and boost both acted: 6 of 19 gives 31, raised to 60, plus 10
C9_Witness ==
  /\ kpc = "returned"
  /\ text = "devops docker"
  /\ HasEntry(results, "DevOps Engineer")
  /\ ScoreOfTitle(results, "DevOps Engineer") = 70

(***************************************************************************)
(* Properties of the embedding service (SpecEmb).                          *)
(***************************************************************************)
\* no constructor call is between its start and its write to the slot
Quiescent == \A t \in Threads : pc[t] \notin { "load", "load_cpu", "encode", "store" }

\* C5: in every interleaving of concurrent first requests, once all started
\* constructions have completed (and one succeeded) the slot holds one
\* completely built instance, it no longer changes, and every later call of
\* get_recommender returns it.
C5_OneInstanceAfterRace ==
  /\ [](Quiescent /\ built > 0 => recommender \in 1..built)
  /\ [][(Quiescent /\ recommender # 0) =>
          /\ recommender' = recommender
          /\ Quiescent'
          /\ \A t \in Threads :
               (pc[t] = "ret" /\ pc'[t] = "recommend") => rec'[t] = recommender]_vars

\* two constructions ran, both wrote, and a request was served from the slot
C5_Witness ==
  /\ Quiescent
  /\ built = 2
  /\ writes = 2
  /\ recommender \in 1..2
  /\ \E t \in Threads : resp[t].status = 200 /\ resp[t].used = recommender

\* C6: over the life of the process the slot is written at most once and the
\* engine with its category embeddings is constructed at most once.
C6_WrittenAtMostOnce ==
  /\ writes <= 1
  /\ built <= 1

\* C8 as claimed: whenever the load fails it is retried once on CPU, so an
\* error leaves the constructor only after two failed loads.
C8_RetryOnEveryFailure ==
  \A t \in Threads :
    ctor[t].outcome = "raised" => (ctor[t].loads = 2 /\ ctor[t].cpu = "error")

\* C8 amended: a load failure that is a meta-tensor error (message containing
\* "meta", or NotImplementedError) is retried exactly once with CPU forced and
\* propagates only if the retry fails too; any other load failure propagates
\* at once without a retry; the load is never attempted more than twice and
\* the category embeddings are computed only after a load succeeded.
C8_RetryOnlyOnMetaError ==
  \A t \in Threads :
    LET c == ctor[t] IN
    /\ c.loads <= 2
    /\ (c.loads = 2 => c.first = "meta")
    /\ (pc[t] = "load_cpu" => (c.first = "meta" /\ c.loads = 1))
    /\ (c.outcome = "raised" =>
          \/ (c.first = "other" /\ c.loads = 1 /\ c.cpu = "none")
          \/ (c.first = "meta" /\ c.loads = 2 /\ c.cpu = "error"))
    /\ ((c.first = "meta" /\ c.outcome \in { "built", "raised" }) => c.loads = 2)
    /\ ((c.encoded \/ pc[t] = "encode") => (c.first = "ok" \/ c.cpu = "ok"))

\* a meta-tensor error was followed by a successful CPU load and the encode
C8_Witness ==
  \E t \in Threads :
    /\ ctor[t].first = "meta"
    /\ ctor[t].cpu = "ok"
    /\ ctor[t].encoded

\* the step in which the constructor call of thread t raises
RaisedStep(t) == pc[t] \in { "load", "load_cpu" } /\ pc'[t] = "idle"

StableOrder(s) ==
  CHOOSE p \in Permutations(1..Len(s)) :
    \A i, j \in 1..Len(s) :
      i < j => (s[p[i]] > s[p[j]] \/ (s[p[i]] = s[p[j]] /\ p[i] < p[j]))

\* C7 as claimed: recommend returns the n categories of highest similarity
\* in descending order, equal similarities in category (insertion) order.
C7_StableTopN ==
  (rpc = "done" /\ rn >= 0) => idxs = SliceTo(StableOrder(sims), rn)

\* C7 amended: for n >= 0 recommend returns min(n, number of categories)
\* categories, none of the others has a higher similarity than any of them,
\* and they are listed in descending order of similarity; the order of
\* categories with equal similarity is not determined.  (A negative n drops
\* the -n lowest instead.)
C7_TopNDescending ==
  rpc = "done" =>
    /\ Len(idxs) = (IF rn >= 0 THEN Min(rn, Len(sims)) ELSE Max(0, Len(sims) + rn))
    /\ \A i, j \in 1..Len(idxs) : i < j => (idxs[i] # idxs[j] /\ sims[idxs[i]] >= sims[idxs[j]])
    /\ \A c \in 1..Len(sims) :
         (\A i \in 1..Len(idxs) : idxs[i] # c) =>
           \A i \in 1..Len(idxs) : sims[c] <= sims[idxs[i]]
    /\ Len(ranked) = Len(idxs)
    /\ \A i \in 1..Len(idxs) :
         /\ ranked[i].score = sims[idxs[i]]
         /\ ranked[i].title = JOB_TITLES[job_keys[idxs[i]]]

\* two categories of equal similarity returned against category order, ahead
\* of a lower one left out
C7_Witness ==
  /\ rpc = "done"
  /\ rn = 2
  /\ Len(idxs) = 2
  /\ sims[idxs[1]] = sims[idxs[2]]
  /\ idxs[1] > idxs[2]
  /\ \E c \in 1..Len(sims) : sims[c] < sims[idxs[2]]

====
